---- MODULE Spec2Model ----
(***************************************************************************)
(* A model of felipe-lee/file-manager: the date-based media renamer        *)
(* (utils.FileRenamer / pictures.PictureRenamer), the prefix sorter        *)
(* (utils.FileSorter / pictures.PictureSorter) and the name derivation     *)
(* (utils.DateName), running on a Windows file system.                     *)
(*                                                                         *)
(* Python strings are sequences of one-character strings, so that          *)
(* splitext, lower/upper, slicing, joining and comparison are computed as  *)
(* the code computes them.                                                 *)
(***************************************************************************)
EXTENDS Integers, Sequences, FiniteSets, TLC

(***************************************************************************)
(* Bounds of the model.                                                    *)
(***************************************************************************)
\* the largest number of entries of the listed directory
MaxFiles == 2
\* the collision loops are unbounded in the code; the model stops them here
MaxUnique == 3
\* how many times the operator may be asked for another path
MaxPrompts == 2

(***************************************************************************)
(* Characters and strings.                                                 *)
(***************************************************************************)
\* Python's None, distinct from every string (no string holds a long character)
None == <<"None">>

Digits == <<"0", "1", "2", "3", "4", "5", "6", "7", "8", "9">>

UpperCase == <<"A", "B", "C", "D", "E", "F", "G", "H", "I", "J", "K", "L", "M",
               "N", "O", "P", "Q", "R", "S", "T", "U", "V", "W", "X", "Y", "Z">>

LowerCase == <<"a", "b", "c", "d", "e", "f", "g", "h", "i", "j", "k", "l", "m",
               "n", "o", "p", "q", "r", "s", "t", "u", "v", "w", "x", "y", "z">>

\* the characters of the model in code point order
CharOrder == <<" ", ".">> \o Digits \o <<":">> \o UpperCase \o <<"\\", "_">> \o LowerCase

Ord(c) == CHOOSE i \in 1..Len(CharOrder) : CharOrder[i] = c

IndexIn(seq, c) == CHOOSE i \in 1..Len(seq) : seq[i] = c

InSeq(seq, c) == \E i \in 1..Len(seq) : seq[i] = c

LowerChar(c) == IF InSeq(UpperCase, c) THEN LowerCase[IndexIn(UpperCase, c)] ELSE c

UpperChar(c) == IF InSeq(LowerCase, c) THEN UpperCase[IndexIn(LowerCase, c)] ELSE c

\* str.lower()
Lower(s) == [i \in 1..Len(s) |-> LowerChar(s[i])]

\* as if the answer were compared as it is typed
Upper_as_typed(s) == s

\* str.upper()
Upper(s) == [i \in 1..Len(s) |-> UpperChar(s[i])]

\* s[0:n]
Slice(s, n) == SubSeq(s, 1, IF n < Len(s) THEN n ELSE Len(s))

\* s.replace(c, t) for a one-character c
RECURSIVE Replace(_, _, _)
Replace(s, c, t) ==
    IF s = <<>> THEN <<>>
    ELSE (IF Head(s) = c THEN t ELSE <<Head(s)>>) \o Replace(Tail(s), c, t)

\* s.strip() of blanks
RECURSIVE LStrip(_)
LStrip(s) == IF s # <<>> /\ Head(s) = " " THEN LStrip(Tail(s)) ELSE s

RECURSIVE RStrip(_)
RStrip(s) == IF s # <<>> /\ s[Len(s)] = " " THEN RStrip(SubSeq(s, 1, Len(s) - 1)) ELSE s

Strip(s) == RStrip(LStrip(s))

\* Python's s < t on strings: by code point, a proper prefix is smaller
RECURSIVE StrLess(_, _)
StrLess(s, t) ==
    IF t = <<>> THEN FALSE
    ELSE IF s = <<>> THEN TRUE
    ELSE IF Head(s) = Head(t) THEN StrLess(Tail(s), Tail(t))
    ELSE Ord(Head(s)) < Ord(Head(t))

\* str(n) for n >= 0
RECURSIVE IntToStr(_)
IntToStr(n) ==
    IF n < 10 THEN <<Digits[n + 1]>>
    ELSE IntToStr(n \div 10) \o <<Digits[(n % 10) + 1]>>

\* "%02d" and "%04d"
Pad2(n) == <<Digits[(n \div 10) + 1], Digits[(n % 10) + 1]>>

Pad4(n) == Pad2(n \div 100) \o Pad2(n % 100)

(***************************************************************************)
(* Paths (ntpath).                                                         *)
(***************************************************************************)
Sep == "\\"

\* the index of the last c in s, 0 when there is none (str.rfind, 1-based)
RFind(s, c) ==
    IF \E i \in 1..Len(s) : s[i] = c
    THEN CHOOSE i \in 1..Len(s) : s[i] = c /\ \A j \in (i + 1)..Len(s) : s[j] # c
    ELSE 0

\* os.path.splitext: the extension starts at the last dot of the last path
\* component, unless only dots precede it there
splitext(p) ==
    LET sepIndex == RFind(p, Sep)
        dotIndex == RFind(p, ".")
    IN  IF dotIndex > sepIndex /\ \E k \in (sepIndex + 1)..(dotIndex - 1) : p[k] # "."
        THEN <<SubSeq(p, 1, dotIndex - 1), SubSeq(p, dotIndex, Len(p))>>
        ELSE <<p, <<>>>>

get_file_extension(file_name) == splitext(file_name)[2]

\* os.path.join(a, b) for a relative b
PathJoin(a, b) ==
    IF a = <<>> THEN b
    ELSE IF a[Len(a)] \in {Sep, ":"} THEN a \o b
    ELSE a \o <<Sep>> \o b

\* '\\'.join(parts)
RECURSIVE SepJoin(_)
SepJoin(parts) ==
    IF Len(parts) = 0 THEN <<>>
    ELSE IF Len(parts) = 1 THEN parts[1]
    ELSE parts[1] \o <<Sep>> \o SepJoin(Tail(parts))

\* "".join(parts)
RECURSIVE Concat(_)
Concat(parts) == IF parts = <<>> THEN <<>> ELSE Head(parts) \o Concat(Tail(parts))

DirName(p) == SubSeq(p, 1, RFind(p, Sep) - 1)

BaseName(p) == SubSeq(p, RFind(p, Sep) + 1, Len(p))

(***************************************************************************)
(* Dates.                                                                  *)
(***************************************************************************)
\* the offset of local time from UTC, in seconds
UtcOffset == 0

\* datetime.fromtimestamp(date_time).strftime("%Y%m%d_%H%M%S")
format_date_time(date_time) ==
    LET t    == date_time + UtcOffset
        days == t \div 86400
        secs == t % 86400
        z    == days + 719468
        era  == z \div 146097
        doe  == z - era * 146097
        yoe  == (doe - doe \div 1460 + doe \div 36524 - doe \div 146096) \div 365
        doy  == doe - (365 * yoe + yoe \div 4 - yoe \div 100)
        mp   == (5 * doy + 2) \div 153
        d    == doy - (153 * mp + 2) \div 5 + 1
        m    == IF mp < 10 THEN mp + 3 ELSE mp - 9
        y    == yoe + era * 400 + (IF m <= 2 THEN 1 ELSE 0)
    IN  Pad4(y) \o Pad2(m) \o Pad2(d) \o <<"_">>
          \o Pad2(secs \div 3600) \o Pad2((secs % 3600) \div 60) \o Pad2(secs % 60)

\* as if the creation time were formatted whatever it is
get_date_created_always(f) == format_date_time(f.ctime)

\* DateName.get_date_created: None when the time stamp is falsy
get_date_created(f) == IF f.ctime # 0 THEN format_date_time(f.ctime) ELSE None

\* DateName.get_date_modified
get_date_modified(f) == IF f.mtime # 0 THEN format_date_time(f.mtime) ELSE None

\* DateName.get_date_taken: the EXIF DateTimeOriginal tag, normalised
get_date_taken(f) ==
    IF f.exif = None THEN None
    ELSE Replace(Strip(Replace(f.exif, ":", <<>>)), " ", <<"_">>)

\* min(...) of a non-empty sequence of strings: the first smallest
RECURSIVE MinStr(_, _)
MinStr(best, rest) ==
    IF rest = <<>> THEN best
    ELSE MinStr(IF StrLess(Head(rest), best) THEN Head(rest) ELSE best, Tail(rest))

\* as if the first date that is not None were taken
determine_name_first(date_times) ==
    LET present == SelectSeq(date_times, LAMBDA d : d # None)
    IN  IF present = <<>> THEN None ELSE Head(present)

\* DateName.determine_name on [created, taken, modified]
determine_name(date_times) ==
    LET present == SelectSeq(date_times, LAMBDA d : d # None)
    IN  IF present = <<>> THEN None ELSE MinStr(Head(present), Tail(present))

\* DateName(file_name, date_format).new_name
DateName(f) == determine_name(<<get_date_created(f), get_date_taken(f), get_date_modified(f)>>)

(***************************************************************************)
(* The file system (Windows: names are compared without regard to case).   *)
(***************************************************************************)
\* a file or a directory already answers to the path p
Occupied(fs, ds, p) == \E q \in (DOMAIN fs) \cup ds : Lower(q) = Lower(p)

IsDir(ds, p) == \E q \in ds : Lower(q) = Lower(p)

\* the file system after the file at src has become the file at dst
MoveEntry(fs, src, dst) ==
    [q \in ((DOMAIN fs) \ {src}) \cup {dst} |-> IF q = dst THEN fs[src] ELSE fs[q]]

\* as if os.replace were called: an existing destination is overwritten
os_replace(fs, ds, src, dst) ==
    IF src \notin DOMAIN fs THEN [err |-> "ERROR_FILE_NOT_FOUND", files |-> fs]
    ELSE IF fs[src].locked THEN [err |-> "ERROR_SHARING_VIOLATION", files |-> fs]
    ELSE IF ~IsDir(ds, DirName(dst)) THEN [err |-> "ERROR_PATH_NOT_FOUND", files |-> fs]
    ELSE [err |-> "OK",
          files |-> MoveEntry([q \in {r \in DOMAIN fs : r = src \/ Lower(r) # Lower(dst)} |-> fs[q]],
                              src, dst)]

\* os.rename(src, dst): the Windows error raised, or OK and the new files.
\* The source is opened first, then the destination is looked up.
os_rename(fs, ds, src, dst) ==
    IF src \notin DOMAIN fs THEN [err |-> "ERROR_FILE_NOT_FOUND", files |-> fs]
    ELSE IF fs[src].locked THEN [err |-> "ERROR_SHARING_VIOLATION", files |-> fs]
    ELSE IF ~IsDir(ds, DirName(dst)) THEN [err |-> "ERROR_PATH_NOT_FOUND", files |-> fs]
    ELSE IF Lower(src) # Lower(dst) /\ Occupied(fs, ds, dst)
         THEN [err |-> "ERROR_ALREADY_EXISTS", files |-> fs]
    ELSE [err |-> "OK", files |-> MoveEntry(fs, src, dst)]

\* os.mkdir(d)
os_mkdir(fs, ds, d) ==
    IF Occupied(fs, ds, d) THEN [err |-> "ERROR_ALREADY_EXISTS", dirs |-> ds]
    ELSE IF ~IsDir(ds, DirName(d)) THEN [err |-> "ERROR_PATH_NOT_FOUND", dirs |-> ds]
    ELSE [err |-> "OK", dirs |-> ds \cup {d}]

\* os.listdir(p): the names of the entries of p
os_listdir(fs, ds, p) ==
    IF ~IsDir(ds, p) THEN [err |-> "ERROR_PATH_NOT_FOUND", names |-> {}]
    ELSE [err |-> "OK",
          names |-> {BaseName(q) : q \in {r \in (DOMAIN fs) \cup ds :
                                          r # <<>> /\ Lower(DirName(r)) = Lower(p)}}]

\* the orders in which a listing may come
Orders(S) == {o \in [1..Cardinality(S) -> S] : \A i, j \in DOMAIN o : o[i] = o[j] => i = j}

\* what the sorter reads in WindowsError.strerror
MentionsAlreadyExists(err) == err = "ERROR_ALREADY_EXISTS"

MentionsCannotFindPath(err) == err = "ERROR_PATH_NOT_FOUND"

(***************************************************************************)
(* Program constants.                                                      *)
(***************************************************************************)
MEDIA_EXTENSIONS ==
    { <<".", "j", "p", "g">>, <<".", "j", "p", "e", "g">>, <<".", "p", "n", "g">>,
      <<".", "m", "p", "4">>, <<".", "b", "m", "p">>, <<".", "3", "g", "2">>,
      <<".", "a", "v", "i">>, <<".", "3", "g", "p">>, <<".", "m", "o", "v">>,
      <<".", "w", "m", "v">> }

accepted_extensions == MEDIA_EXTENSIONS

\* as if the extension were compared as it is written
Accepted_as_written(ext) == ext \in accepted_extensions

\* process_files: ext.lower() in self.accepted_extensions
Accepted(ext) == Lower(ext) \in accepted_extensions

\* as if rename_file did not compare the names
SameName_never(new_file_name, file_name) == FALSE

\* rename_file: new_file_name == file_name
SameName(new_file_name, file_name) == new_file_name = file_name

\* as if the slice were one character short
SortKey_short(file_name) == Slice(file_name, 3)

\* move_file: file_name[0:4]
SortKey(file_name) == Slice(file_name, 4)

(***************************************************************************)
(* The directories and files the runs start from.                          *)
(***************************************************************************)
Cwd == <<"d">>

DirIn == <<"d">>

DirMissing == <<"x">>

DirBase == <<"b">>

N_photo == <<"p", "h", "o", "t", "o", "1", ".", "j", "p", "g">>

N_notes == <<"n", "o", "t", "e", "s", ".", "t", "x", "t">>

N_dated == <<"2", "0", "2", "1", "0", "5", "0", "1", "_", "1", "0", "0", "0", "0", "0", ".", "j", "p", "g">>

N_dated1 == <<"2", "0", "2", "1", "0", "5", "0", "1", "_", "1", "0", "0", "0", "0", "0", "_", "1", ".", "j", "p", "g">>

N_upper == <<"I", "M", "G", "2", ".", "J", "P", "G">>

N_lower == <<"i", "m", "g", "2", ".", "j", "p", "g">>

N_hidden == <<".", "j", "p", "g">>

Names == {N_photo, N_notes, N_dated, N_upper, N_hidden}

E_2021 == <<"2", "0", "2", "1", ":", "0", "5", ":", "0", "1", " ", "1", "0", ":", "0", "0", ":", "0", "0">>

\* taken 2021-05-01 10:00:00, created and modified 2023-01-15 10:30:00
K_taken == [ctime |-> 1673778600, mtime |-> 1673778600, exif |-> E_2021, locked |-> FALSE]

\* created 2021-05-01 10:00:00, modified later, no tag
K_created == [ctime |-> 1619863200, mtime |-> 1673778600, exif |-> None, locked |-> FALSE]

\* modified 2020-02-29 23:59:59, created later, no tag
K_older == [ctime |-> 1619863200, mtime |-> 1583020799, exif |-> None, locked |-> FALSE]

\* no date at all
K_nodate == [ctime |-> 0, mtime |-> 0, exif |-> None, locked |-> FALSE]

\* held open by another process
K_locked == [ctime |-> 1619863200, mtime |-> 1673778600, exif |-> None, locked |-> TRUE]

\* the files a renamer may find under each name
RenameKinds(n) ==
    CASE n = N_photo -> {K_taken, K_created, K_nodate, K_locked}
      [] n = N_dated -> {K_created, K_older}
      [] n = N_upper -> {K_created, K_nodate}
      [] OTHER -> {K_created}

\* the files a sorter may find under each name
SortKinds(n) ==
    CASE n = N_photo -> {K_created, K_locked}
      [] OTHER -> {K_created}

File(p, k) ==
    [id |-> p, ctime |-> k.ctime, mtime |-> k.mtime, exif |-> k.exif, locked |-> k.locked]

\* the directories of at most MaxFiles entries, every file with its identity
InputDirs(kinds(_)) ==
    UNION { { [p \in {PathJoin(DirIn, n) : n \in S} |-> File(p, k[BaseName(p)])]
              : k \in {g \in [S -> UNION {kinds(n) : n \in S}] : \A n \in S : g[n] \in kinds(n)} }
            : S \in {T \in SUBSET Names : Cardinality(T) <= MaxFiles} }

Sub2021 == SepJoin(<<DirBase, Slice(N_dated, 4)>>)

SubImg2 == SepJoin(<<DirBase, Slice(N_upper, 4)>>)

FilesAt(paths) == [p \in paths |-> File(p, K_created)]

\* what the sorter's destination holds before the run
Destinations ==
    { [dirs |-> {}, files |-> FilesAt({})],
      [dirs |-> {DirBase}, files |-> FilesAt({})],
      [dirs |-> {DirBase, Sub2021}, files |-> FilesAt({})],
      [dirs |-> {DirBase, Sub2021}, files |-> FilesAt({SepJoin(<<Sub2021, N_dated>>)})],
      [dirs |-> {DirBase, Sub2021},
       files |-> FilesAt({SepJoin(<<Sub2021, N_dated>>), SepJoin(<<Sub2021, N_dated1>>)})],
      [dirs |-> {DirBase, SubImg2}, files |-> FilesAt({SepJoin(<<SubImg2, N_lower>>)})] }

\* what the operator may type at the prompts
Answers == { <<"N">>, <<"n">>, <<"Y">>, <<"y">>, <<"q">> }

NewPaths == {DirIn, DirMissing}

(***************************************************************************)
(* The state.                                                              *)
(***************************************************************************)
VARIABLES
    mode,                          \* "rename": a PictureRenamer, "sort": a PictureSorter
    files,                         \* the file system: path -> file
    dirs,                          \* the file system: the directories
    input_path, path, base_path,   \* self.input_path, self.path, self.base_path
    listed,                        \* self.files
    directory_found,               \* get_files: directory_found
    pc,                            \* where the constructor is
    idx,                           \* process_files: the position in self.files
    loc,                           \* the locals of rename_file / move_file
    successfully_renamed, skipped_new_name_matches_old, failed_to_rename,
    skipped_different_extension, successfully_moved, failed_to_move,
    report,                        \* what print_report printed
    answer,                        \* the last answer read by get_files
    run, prompts,                  \* how many constructions, how many new paths asked
    files0,                        \* the files when the construction started
    prev,                          \* what the previous construction left
    dn                             \* a DateName: its dates and its new_name

vars == <<mode, files, dirs, input_path, path, base_path, listed, directory_found, pc, idx,
          loc, successfully_renamed, skipped_new_name_matches_old, failed_to_rename,
          skipped_different_extension, successfully_moved, failed_to_move, report, answer,
          run, prompts, files0, prev, dn>>

fsVars == <<files, dirs>>

renameBuckets == <<successfully_renamed, skipped_new_name_matches_old, failed_to_rename>>

sortBuckets == <<successfully_moved, failed_to_move>>

ghostVars == <<mode, run, files0, prev>>

Idle == [file_name |-> None]

NoDateName == [date_times |-> <<None, None, None>>, new_name |-> None]

\* FileRenamer.__init__ and FileSorter.__init__, up to the call of get_files
Constructed ==
    /\ listed = <<>>
    /\ directory_found = FALSE
    /\ pc = "get_files"
    /\ idx = 1
    /\ loc = Idle
    /\ successfully_renamed = <<>>
    /\ skipped_new_name_matches_old = <<>>
    /\ failed_to_rename = <<>>
    /\ skipped_different_extension = <<>>
    /\ successfully_moved = <<>>
    /\ failed_to_move = <<>>
    /\ report = <<>>
    /\ answer = None

Init ==
    /\ mode \in {"rename", "sort"}
    /\ \/ /\ mode = "rename"
          /\ files \in InputDirs(RenameKinds)
          /\ dirs = {<<>>, DirIn}
          /\ input_path \in {None, DirMissing}
          /\ path = IF input_path = None THEN Cwd ELSE input_path
          /\ base_path = None
       \/ /\ mode = "sort"
          /\ \E d \in Destinations :
                /\ files \in {f @@ d.files : f \in InputDirs(SortKinds)}
                /\ dirs = {<<>>, DirIn} \cup d.dirs
          /\ input_path \in {DirIn, DirMissing}
          /\ path = None
          /\ base_path = DirBase
    /\ Constructed
    /\ run = 1
    /\ prompts = 0
    /\ files0 = files
    /\ prev = [found |-> FALSE, renamed |-> {}]
    /\ dn = NoDateName

(***************************************************************************)
(* FileRenamer / PictureRenamer.                                           *)
(***************************************************************************)
\* FileRenamer.get_files: one os.listdir of the loop
R_get_files ==
    /\ mode = "rename" /\ pc = "get_files"
    /\ LET res == os_listdir(files, dirs, path)
       IN  IF res.err = "OK"
           THEN /\ listed' \in Orders(res.names)
                /\ directory_found' = TRUE
                /\ pc' = IF res.names # {} THEN "process_files" ELSE "print_report"
           ELSE /\ pc' = "prompt"
                /\ UNCHANGED <<listed, directory_found>>
    /\ UNCHANGED <<fsVars, input_path, path, base_path, idx, loc, renameBuckets,
                   skipped_different_extension, sortBuckets, report, answer, prompts,
                   ghostVars, dn>>

\* FileRenamer.get_files: the except branch, the operator answers
R_prompt ==
    /\ mode = "rename" /\ pc = "prompt"
    /\ \E a \in Answers :
          LET continue_running == Upper(a)
          IN  /\ answer' = a
              /\ IF continue_running = <<"N">>
                 THEN /\ pc' = "print_report"
                      /\ UNCHANGED <<path, prompts>>
                 ELSE IF continue_running = <<"Y">>
                 THEN /\ prompts < MaxPrompts
                      /\ path' \in NewPaths
                      /\ prompts' = prompts + 1
                      /\ pc' = "get_files"
                 ELSE /\ pc' = "print_report"
                      /\ UNCHANGED <<path, prompts>>
    /\ UNCHANGED <<fsVars, input_path, base_path, listed, directory_found, idx, loc,
                   renameBuckets, skipped_different_extension, sortBuckets, report,
                   ghostVars, dn>>

\* as if the loop body returned where it is to continue
AfterFile_return(i) == "print_report"

\* the for loop of process_files moves on to the next entry
AfterFile(i) == IF i + 1 > Len(listed) THEN "print_report" ELSE "process_files"

\* as if the identifier were joined after the extension
Candidate_after_ext(new_name, unique_num, ext) ==
    IF unique_num = 0 THEN Concat(<<new_name, ext>>)
    ELSE Concat(<<new_name, ext, <<"_">> \o IntToStr(unique_num)>>)

\* "".join([new_name, unique_identifier, ext])
Candidate(new_name, unique_num, ext) ==
    IF unique_num = 0 THEN Concat(<<new_name, ext>>)
    ELSE Concat(<<new_name, <<"_">> \o IntToStr(unique_num), ext>>)

\* FileRenamer.process_files: one entry, up to the call of rename_file
R_process_files ==
    /\ mode = "rename" /\ pc = "process_files"
    /\ LET ext       == get_file_extension(listed[idx])
           file_name == PathJoin(path, listed[idx])
           dates     == <<get_date_created(files[file_name]), get_date_taken(files[file_name]),
                          get_date_modified(files[file_name])>>
           new_name  == determine_name(dates)
       IN  IF ~Accepted(ext)
           THEN /\ skipped_different_extension' = Append(skipped_different_extension, file_name)
                /\ pc' = AfterFile(idx)
                /\ idx' = idx + 1
                /\ UNCHANGED <<failed_to_rename, loc, dn>>
           ELSE /\ dn' = [date_times |-> dates, new_name |-> new_name]
                /\ IF new_name = None
                   THEN /\ failed_to_rename' =
                              Append(failed_to_rename,
                                     [file |-> file_name, reason |-> "no new name could be determined"])
                        /\ pc' = AfterFile(idx)
                        /\ idx' = idx + 1
                        /\ UNCHANGED <<skipped_different_extension, loc>>
                   ELSE /\ loc' = [file_name |-> file_name,
                                   new_name |-> PathJoin(path, new_name),
                                   ext |-> ext,
                                   new_file_name |-> Candidate(PathJoin(path, new_name), 0, ext),
                                   unique_num |-> 0]
                        /\ pc' = "rename_file"
                        /\ UNCHANGED <<skipped_different_extension, failed_to_rename, idx>>
    /\ UNCHANGED <<fsVars, input_path, path, base_path, listed, directory_found,
                   successfully_renamed, skipped_new_name_matches_old, sortBuckets, report,
                   answer, prompts, ghostVars>>

\* PictureRenamer.rename_file: one turn of the while loop
R_rename_file ==
    /\ mode = "rename" /\ pc = "rename_file"
    /\ IF SameName(loc.new_file_name, loc.file_name)
       THEN /\ skipped_new_name_matches_old' = Append(skipped_new_name_matches_old, loc.file_name)
            /\ pc' = AfterFile(idx)
            /\ idx' = idx + 1
            /\ loc' = Idle
            /\ UNCHANGED <<files, successfully_renamed, failed_to_rename>>
       ELSE LET res == os_rename(files, dirs, loc.file_name, loc.new_file_name)
            IN  CASE res.err = "OK" ->
                       /\ files' = res.files
                       /\ successfully_renamed' =
                             Append(successfully_renamed,
                                    [from |-> loc.file_name, to |-> loc.new_file_name])
                       /\ pc' = AfterFile(idx)
                       /\ idx' = idx + 1
                       /\ loc' = Idle
                       /\ UNCHANGED <<skipped_new_name_matches_old, failed_to_rename>>
                  \* except TypeError: os.rename of two strings never raises it
                  [] res.err = "TypeError" ->
                       /\ failed_to_rename' =
                             Append(failed_to_rename, [file |-> loc.file_name, reason |-> res.err])
                       /\ pc' = AfterFile(idx)
                       /\ idx' = idx + 1
                       /\ loc' = Idle
                       /\ UNCHANGED <<files, successfully_renamed, skipped_new_name_matches_old>>
                  [] OTHER ->
                       \* except WindowsError: every OSError of os.rename
                       /\ loc.unique_num < MaxUnique
                       /\ loc' = [loc EXCEPT !.unique_num = loc.unique_num + 1,
                                             !.new_file_name =
                                                Candidate(loc.new_name, loc.unique_num + 1, loc.ext)]
                       /\ UNCHANGED <<files, pc, idx, successfully_renamed,
                                      skipped_new_name_matches_old, failed_to_rename>>
    /\ UNCHANGED <<dirs, input_path, path, base_path, listed, directory_found,
                   skipped_different_extension, sortBuckets, report, answer, prompts,
                   ghostVars, dn>>

\* FileRenamer.print_report
R_print_report ==
    /\ mode = "rename" /\ pc = "print_report"
    /\ report' = <<Len(successfully_renamed), Len(failed_to_rename),
                   Len(skipped_new_name_matches_old), Len(skipped_different_extension)>>
    /\ pc' = "done"
    /\ UNCHANGED <<fsVars, input_path, path, base_path, listed, directory_found, idx, loc,
                   renameBuckets, skipped_different_extension, sortBuckets, answer, prompts,
                   ghostVars, dn>>

\* the renamer is constructed again on the same input_path
R_again ==
    /\ mode = "rename" /\ pc = "done" /\ run = 1
    /\ run' = run + 1
    /\ prev' = [found |-> directory_found, renamed |-> {successfully_renamed[i].to : i \in DOMAIN successfully_renamed}]
    /\ files0' = files
    /\ path' = IF input_path = None THEN Cwd ELSE input_path
    /\ listed' = <<>>
    /\ directory_found' = FALSE
    /\ pc' = "get_files"
    /\ idx' = 1
    /\ loc' = Idle
    /\ successfully_renamed' = <<>>
    /\ skipped_new_name_matches_old' = <<>>
    /\ failed_to_rename' = <<>>
    /\ skipped_different_extension' = <<>>
    /\ successfully_moved' = <<>>
    /\ failed_to_move' = <<>>
    /\ report' = <<>>
    /\ answer' = None
    /\ UNCHANGED <<mode, fsVars, input_path, base_path, prompts, dn>>

(***************************************************************************)
(* FileSorter / PictureSorter.                                             *)
(***************************************************************************)
\* FileSorter.get_files: one os.listdir of the loop
S_get_files ==
    /\ mode = "sort" /\ pc = "get_files"
    /\ LET res == os_listdir(files, dirs, input_path)
       IN  IF res.err = "OK"
           THEN /\ listed' \in Orders(res.names)
                /\ directory_found' = TRUE
                /\ pc' = IF res.names # {} THEN "process_files" ELSE "print_report"
           ELSE /\ pc' = "prompt"
                /\ UNCHANGED <<listed, directory_found>>
    /\ UNCHANGED <<fsVars, input_path, path, base_path, idx, loc, renameBuckets,
                   skipped_different_extension, sortBuckets, report, answer, prompts,
                   ghostVars, dn>>

\* FileSorter.get_files: the except branch, the operator answers
S_prompt ==
    /\ mode = "sort" /\ pc = "prompt"
    /\ \E continue_running \in Answers :
          /\ answer' = continue_running
          /\ IF Upper(continue_running) = <<"N">>
             THEN /\ pc' = "print_report"
                  /\ UNCHANGED <<input_path, prompts>>
             ELSE IF Upper(continue_running) = <<"Y">>
             THEN /\ prompts < MaxPrompts
                  /\ input_path' \in NewPaths
                  /\ prompts' = prompts + 1
                  /\ pc' = "get_files"
             ELSE /\ pc' = "print_report"
                  /\ UNCHANGED <<input_path, prompts>>
    /\ UNCHANGED <<fsVars, path, base_path, listed, directory_found, idx, loc,
                   renameBuckets, skipped_different_extension, sortBuckets, report,
                   ghostVars, dn>>

\* FileSorter.process_files: one entry, up to the first os.rename of move_file
S_process_files ==
    /\ mode = "sort" /\ pc = "process_files"
    /\ LET file_name == listed[idx]
           ext       == get_file_extension(file_name)
           sort_key  == SortKey(file_name)
       IN  IF ~Accepted(ext)
           THEN /\ skipped_different_extension' = Append(skipped_different_extension, file_name)
                /\ pc' = AfterFile(idx)
                /\ idx' = idx + 1
                /\ UNCHANGED loc
           ELSE /\ loc' = [file_name |-> file_name,
                           sort_key |-> sort_key,
                           current_file_path |-> SepJoin(<<input_path, file_name>>),
                           new_file_path |-> SepJoin(<<base_path, sort_key, file_name>>),
                           unique_num |-> 0,
                           mkdirs |-> 0]
                /\ pc' = "move_file"
                /\ UNCHANGED <<skipped_different_extension, idx>>
    /\ UNCHANGED <<fsVars, input_path, path, base_path, listed, directory_found,
                   renameBuckets, sortBuckets, report, answer, prompts, ghostVars, dn>>

\* the path move_file tries after unique_num collisions
MoveCandidate(base, sort_key, file_name, unique_num) ==
    LET root == splitext(file_name)[1]
        ext  == splitext(file_name)[2]
    IN  SepJoin(<<base, sort_key, Concat(<<root, <<"_">> \o IntToStr(unique_num), ext>>)>>)

\* PictureSorter.move_file: one turn of the while loop
S_move_file ==
    /\ mode = "sort" /\ pc = "move_file"
    /\ LET res == os_rename(files, dirs, loc.current_file_path, loc.new_file_path)
       IN  CASE res.err = "OK" ->
                  /\ files' = res.files
                  /\ successfully_moved' =
                        Append(successfully_moved,
                               [from |-> loc.current_file_path, to |-> loc.new_file_path])
                  /\ pc' = AfterFile(idx)
                  /\ idx' = idx + 1
                  /\ loc' = Idle
                  /\ UNCHANGED <<dirs, failed_to_move>>
             [] res.err # "OK" /\ MentionsAlreadyExists(res.err) ->
                  /\ loc.unique_num < MaxUnique
                  /\ loc' = [loc EXCEPT !.unique_num = loc.unique_num + 1,
                                        !.new_file_path =
                                           MoveCandidate(base_path, loc.sort_key, loc.file_name,
                                                         loc.unique_num + 1)]
                  /\ UNCHANGED <<fsVars, pc, idx, sortBuckets>>
             [] res.err # "OK" /\ ~MentionsAlreadyExists(res.err)
                  /\ MentionsCannotFindPath(res.err) ->
                  LET made == os_mkdir(files, dirs, SepJoin(<<base_path, loc.sort_key>>))
                  IN  IF made.err = "OK"
                      THEN /\ dirs' = made.dirs
                           /\ loc' = [loc EXCEPT !.mkdirs = loc.mkdirs + 1]
                           /\ UNCHANGED <<files, pc, idx, sortBuckets>>
                      ELSE \* the error of os.mkdir leaves the constructor
                           /\ pc' = "crashed"
                           /\ UNCHANGED <<fsVars, idx, loc, sortBuckets>>
             [] OTHER ->
                  /\ failed_to_move' = Append(failed_to_move, loc.file_name)
                  /\ pc' = AfterFile(idx)
                  /\ idx' = idx + 1
                  /\ loc' = Idle
                  /\ UNCHANGED <<fsVars, successfully_moved>>
    /\ UNCHANGED <<input_path, path, base_path, listed, directory_found, renameBuckets,
                   skipped_different_extension, report, answer, prompts, ghostVars, dn>>

\* FileSorter.print_report
S_print_report ==
    /\ mode = "sort" /\ pc = "print_report"
    /\ report' = <<Len(successfully_moved), Len(failed_to_move),
                   Len(skipped_different_extension)>>
    /\ pc' = "done"
    /\ UNCHANGED <<fsVars, input_path, path, base_path, listed, directory_found, idx, loc,
                   renameBuckets, skipped_different_extension, sortBuckets, answer, prompts,
                   ghostVars, dn>>

(***************************************************************************)
(* DateName on its own: every combination of dates of one file.            *)
(***************************************************************************)
TimeStamps == {0, 1583020799, 1619863200, 1673778600}

E_2019 == <<"2", "0", "1", "9", ":", "1", "2", ":", "3", "1", " ", "2", "3", ":", "5", "9", ":", "5", "9">>

ExifTags == {None, E_2021, E_2019, <<" ">> \o E_2021 \o <<" ">>, <<"2", "0", "2", "1">>}

InitDateName ==
    /\ mode = "datename"
    /\ files \in {[p \in {N_photo} |-> File(p, [ctime |-> c, mtime |-> m, exif |-> e, locked |-> FALSE])]
                  : c \in TimeStamps, m \in TimeStamps, e \in ExifTags}
    /\ dirs = {<<>>}
    /\ input_path = None
    /\ path = None
    /\ base_path = None
    /\ Constructed
    /\ run = 1
    /\ prompts = 0
    /\ files0 = files
    /\ prev = [found |-> FALSE, renamed |-> {}]
    /\ dn = NoDateName

\* DateName.determine_name: the three dates are gathered
DN_dates ==
    /\ mode = "datename" /\ pc = "get_files"
    /\ dn' = [date_times |-> <<get_date_created(files[N_photo]), get_date_taken(files[N_photo]),
                               get_date_modified(files[N_photo])>>,
              new_name |-> None]
    /\ pc' = "determine_name"
    /\ UNCHANGED <<fsVars, input_path, path, base_path, listed, directory_found, idx, loc,
                   renameBuckets, skipped_different_extension, sortBuckets, report, answer,
                   prompts, ghostVars>>

\* DateName.determine_name: the minimum is taken
DN_min ==
    /\ mode = "datename" /\ pc = "determine_name"
    /\ dn' = [dn EXCEPT !.new_name = determine_name(dn.date_times)]
    /\ pc' = "done"
    /\ UNCHANGED <<fsVars, input_path, path, base_path, listed, directory_found, idx, loc,
                   renameBuckets, skipped_different_extension, sortBuckets, report, answer,
                   prompts, ghostVars>>

NextDateName == DN_dates \/ DN_min

SpecDateName == InitDateName /\ [][NextDateName]_vars

Next ==
    \/ R_get_files
    \/ R_prompt
    \/ R_process_files
    \/ R_rename_file
    \/ R_print_report
    \/ R_again
    \/ S_get_files
    \/ S_prompt
    \/ S_process_files
    \/ S_move_file
    \/ S_print_report

Spec == Init /\ [][Next]_vars
(***************************************************************************)
(* Properties.                                                             *)
(***************************************************************************)
Range(seq) == {seq[i] : i \in DOMAIN seq}

\* how many entries of a bucket satisfy P
Count(seq, P(_)) == Cardinality({i \in DOMAIN seq : P(seq[i])})

\* in how many outcome buckets of the renamer the listed name n is recorded
RenameRecords(n) ==
    LET f == PathJoin(path, n)
    IN  Count(successfully_renamed, LAMBDA r : r.from = f)
          + Count(failed_to_rename, LAMBDA r : r.file = f)
          + Count(skipped_new_name_matches_old, LAMBDA r : r = f)
          + Count(skipped_different_extension, LAMBDA r : r = f)

\* in how many outcome buckets of the sorter the listed name n is recorded
SortRecords(n) ==
    Count(successfully_moved, LAMBDA r : r.from = SepJoin(<<input_path, n>>))
      + Count(failed_to_move, LAMBDA r : r = n)
      + Count(skipped_different_extension, LAMBDA r : r = n)

\* C1: when a run has completed, every listed name is recorded in exactly one
\* outcome bucket, and the bucket sizes sum to the number of listed names.
C1_ExactlyOneBucket ==
    pc = "done" =>
       /\ mode = "rename" =>
             /\ \A i \in DOMAIN listed : RenameRecords(listed[i]) = 1
             /\ Len(successfully_renamed) + Len(failed_to_rename)
                  + Len(skipped_new_name_matches_old) + Len(skipped_different_extension)
                  = Len(listed)
       /\ mode = "sort" =>
             /\ \A i \in DOMAIN listed : SortRecords(listed[i]) = 1
             /\ Len(successfully_moved) + Len(failed_to_move)
                  + Len(skipped_different_extension) = Len(listed)

\* a completed sorter run with one file moved and one file failed
C1_Witness ==
    /\ pc = "done" /\ mode = "sort"
    /\ Len(listed) = 2
    /\ Len(successfully_moved) = 1
    /\ Len(failed_to_move) = 1

\* C2 as claimed: a rename that fails with an error other than 'already exists'
\* records the file in failed_to_rename and makes no further attempt for it.
C2_OtherErrorIsRecorded ==
    [][ (/\ mode = "rename" /\ pc = "rename_file"
         /\ loc.new_file_name # loc.file_name
         /\ os_rename(files, dirs, loc.file_name, loc.new_file_name).err
               \notin {"OK", "ERROR_ALREADY_EXISTS"})
        => (/\ pc' # "rename_file"
            /\ Len(failed_to_rename') = Len(failed_to_rename) + 1
            /\ failed_to_rename'[Len(failed_to_rename')].file = loc.file_name) ]_vars

\* the unsuffixed name the renamer derives for the file f found at path p
DerivedPath(p, f) == Concat(<<PathJoin(DirName(p), DateName(f)), get_file_extension(BaseName(p))>>)

Suffixed(stem, n, ext) == stem \o <<"_", Digits[n + 1]>> \o ext

\* the entries of the directory d
EntriesOf(fs, d) == {q \in DOMAIN fs : Lower(DirName(q)) = Lower(d)}

\* C4: every 'already exists' failure raises the suffix counter by one and the
\* next candidate is <base>_<counter><ext>; the name finally accepted was not
\* occupied when the rename was made; a file moved into a destination holding
\* only its own name is moved as <root>_1<ext>.
C4_CollisionHandling ==
    [][ /\ (/\ mode = "rename" /\ pc = "rename_file"
            /\ loc.new_file_name # loc.file_name
            /\ os_rename(files, dirs, loc.file_name, loc.new_file_name).err = "ERROR_ALREADY_EXISTS")
           => /\ loc'.unique_num = loc.unique_num + 1
              /\ loc'.new_file_name = Suffixed(loc.new_name, loc.unique_num + 1, loc.ext)
              /\ pc' = "rename_file"
        /\ (/\ mode = "sort" /\ pc = "move_file"
            /\ os_rename(files, dirs, loc.current_file_path, loc.new_file_path).err = "ERROR_ALREADY_EXISTS")
           => /\ loc'.unique_num = loc.unique_num + 1
              /\ loc'.new_file_path =
                    DirName(loc.new_file_path) \o <<Sep>>
                       \o Suffixed(SubSeq(loc.file_name, 1, Len(loc.file_name) - 4),
                                   loc.unique_num + 1,
                                   SubSeq(loc.file_name, Len(loc.file_name) - 3, Len(loc.file_name)))
              /\ pc' = "move_file"
        /\ Len(successfully_renamed') > Len(successfully_renamed)
           => LET r == successfully_renamed'[Len(successfully_renamed')]
              IN  /\ ~Occupied(files, dirs, r.to)
                  /\ r.to = IF loc.unique_num = 0 THEN loc.new_name \o loc.ext
                            ELSE Suffixed(loc.new_name, loc.unique_num, loc.ext)
        /\ Len(successfully_moved') > Len(successfully_moved)
           => LET r == successfully_moved'[Len(successfully_moved')]
              IN  /\ ~Occupied(files, dirs, r.to)
                  /\ EntriesOf(files, DirName(r.to)) = {DirName(r.to) \o <<Sep>> \o loc.file_name}
                        => r.to = DirName(r.to) \o <<Sep>>
                                    \o Suffixed(SubSeq(loc.file_name, 1, Len(loc.file_name) - 4), 1,
                                                SubSeq(loc.file_name, Len(loc.file_name) - 3,
                                                       Len(loc.file_name)))
      ]_vars

\* the sorter moved 20210501_100000.jpg into a destination holding that name
C4_Witness ==
    /\ mode = "sort" /\ pc = "done"
    /\ \E i \in DOMAIN successfully_moved :
          /\ successfully_moved[i].from = SepJoin(<<DirIn, N_dated>>)
          /\ successfully_moved[i].to = SepJoin(<<Sub2021, N_dated1>>)

\* the name n ends, in any letter case, with an accepted extension
EndsAccepted(n) ==
    \E e \in MEDIA_EXTENSIONS :
       /\ Len(n) > Len(e)
       /\ Lower(SubSeq(n, Len(n) - Len(e) + 1, Len(n))) = e
       /\ \E k \in 1..(Len(n) - Len(e)) : n[k] # "."

\* C5: a listed file whose extension is not accepted is recorded in
\* skipped_different_extension and nothing of the file system changes; a file
\* whose extension is accepted in any letter case is not put in that bucket.
C5_SkippedExtension ==
    [][ (pc = "process_files" /\ mode \in {"rename", "sort"}) =>
          IF EndsAccepted(listed[idx])
          THEN skipped_different_extension' = skipped_different_extension
          ELSE /\ skipped_different_extension' =
                     Append(skipped_different_extension,
                            IF mode = "rename" THEN path \o <<Sep>> \o listed[idx] ELSE listed[idx])
               /\ files' = files /\ dirs' = dirs
               /\ pc' \in {"process_files", "print_report"}
               /\ successfully_renamed' = successfully_renamed
               /\ successfully_moved' = successfully_moved
      ]_vars

\* notes.txt was skipped and IMG2.JPG was renamed in the same run
C5_Witness ==
    /\ mode = "rename" /\ pc = "done"
    /\ PathJoin(DirIn, N_notes) \in Range(skipped_different_extension)
    /\ \E i \in DOMAIN successfully_renamed : successfully_renamed[i].from = PathJoin(DirIn, N_upper)

\* s <= t in the lexicographic order of code points
LexLeq(s, t) ==
    \/ /\ Len(s) <= Len(t)
       /\ \A i \in 1..Len(s) : s[i] = t[i]
    \/ \E i \in 1..Len(s) :
          /\ i <= Len(t)
          /\ \A j \in 1..(i - 1) : s[j] = t[j]
          /\ Ord(s[i]) < Ord(t[i])

\* C6: new_name is the lexicographic minimum of the dates that are not None, one
\* of the three dates, None exactly when all three are None, and the same for
\* every order of the three dates.
C6_NameIsMinimum ==
    (mode = "datename" /\ pc = "done") =>
       LET present == Range(dn.date_times) \ {None}
       IN  /\ (dn.new_name = None) <=> (present = {})
           /\ present # {} =>
                 /\ dn.new_name \in present
                 /\ \A d \in present : LexLeq(dn.new_name, d)
           /\ \A o \in Orders({1, 2, 3}) :
                 determine_name(<<dn.date_times[o[1]], dn.date_times[o[2]], dn.date_times[o[3]]>>)
                    = dn.new_name

\* the capture date is the earliest of three different dates
C6_Witness ==
    /\ mode = "datename" /\ pc = "done"
    /\ Cardinality(Range(dn.date_times) \ {None}) = 3
    /\ dn.new_name = dn.date_times[2]

\* the file has no creation date, no modification date and no capture date
Dateless(f) == f.ctime = 0 /\ f.mtime = 0 /\ f.exif = None

NoNewName == "no new name could be determined"

\* C7: an accepted file without any date is recorded in failed_to_rename with the
\* 'no new name could be determined' reason, no rename is made, and the loop
\* goes on with the next listed file.
C7_NoDateFails ==
    [][ (/\ mode = "rename" /\ pc = "process_files"
         /\ EndsAccepted(listed[idx])
         /\ Dateless(files[PathJoin(path, listed[idx])]))
        => /\ failed_to_rename' =
                 Append(failed_to_rename,
                        [file |-> PathJoin(path, listed[idx]), reason |-> NoNewName])
           /\ files' = files /\ dirs' = dirs
           /\ successfully_renamed' = successfully_renamed
           /\ skipped_new_name_matches_old' = skipped_new_name_matches_old
           /\ skipped_different_extension' = skipped_different_extension
           /\ idx' = idx + 1
           /\ pc' = IF idx < Len(listed) THEN "process_files" ELSE "print_report"
      ]_vars

\* the first listed file had no date, the second one was renamed after it
C7_Witness ==
    /\ mode = "rename" /\ pc = "done"
    /\ Len(listed) = 2
    /\ failed_to_rename = <<[file |-> PathJoin(path, listed[1]), reason |-> NoNewName]>>
    /\ Len(successfully_renamed) = 1
    /\ PathJoin(path, listed[1]) \in DOMAIN files

AllBucketsEmpty ==
    /\ successfully_renamed = <<>>
    /\ skipped_new_name_matches_old = <<>>
    /\ failed_to_rename = <<>>
    /\ skipped_different_extension = <<>>
    /\ successfully_moved = <<>>
    /\ failed_to_move = <<>>

\* C8: a listing that fails never ends the run with an error. Answer N, in any
\* letter case, ends it with every bucket empty; answer Y reads a new path and
\* lists again; any other answer ends it with every bucket empty; the report is
\* printed in every case.
C8_PathNotFound ==
    [][ /\ (pc = "get_files" /\ mode \in {"rename", "sort"}) =>
              /\ pc' \in {"process_files", "print_report", "prompt"}
              /\ pc' = "prompt" => AllBucketsEmpty /\ listed' = <<>>
        /\ (pc = "prompt") =>
              /\ AllBucketsEmpty /\ listed = <<>>
              /\ fsVars' = fsVars
              /\ IF answer' \in {<<"Y">>, <<"y">>}
                 THEN /\ pc' = "get_files"
                      /\ (IF mode = "rename" THEN path' ELSE input_path') \in NewPaths
                 ELSE /\ pc' = "print_report"
                      /\ listed' = <<>>
                      /\ path' = path /\ input_path' = input_path
        /\ (pc = "print_report") =>
              /\ pc' = "done"
              /\ report' = IF mode = "rename"
                           THEN <<Len(successfully_renamed), Len(failed_to_rename),
                                  Len(skipped_new_name_matches_old),
                                  Len(skipped_different_extension)>>
                           ELSE <<Len(successfully_moved), Len(failed_to_move),
                                  Len(skipped_different_extension)>>
              /\ ~directory_found => AllBucketsEmpty /\ listed = <<>>
      ]_vars

\* the operator gave a new path with y, then stopped with n, and the report
\* of a run without outcomes was printed
C8_Witness ==
    /\ pc = "done" /\ mode = "sort"
    /\ ~directory_found
    /\ prompts = 1
    /\ answer = <<"n">>
    /\ report = <<0, 0, 0>>
    /\ files = files0

\* C9: the destination of an accepted file is <base_path>\<first 4 characters>\
\* <file_name>; when the move fails for the missing subdirectory the sorter
\* creates it and tries the same move again, at most once for a file, and the
\* file is then moved there; when the creation fails the error leaves the run
\* and nothing is recorded in failed_to_move.
C9_MissingSubdirectory ==
    [][ /\ (mode = "sort" /\ pc = "process_files" /\ pc' = "move_file") =>
              loc'.new_file_path =
                 base_path \o <<Sep>> \o SubSeq(listed[idx], 1, 4) \o <<Sep>> \o listed[idx]
        /\ (/\ mode = "sort" /\ pc = "move_file"
            /\ os_rename(files, dirs, loc.current_file_path, loc.new_file_path).err
                  = "ERROR_PATH_NOT_FOUND") =>
              IF IsDir(dirs, base_path)
              THEN /\ dirs' = dirs \cup {base_path \o <<Sep>> \o SubSeq(loc.file_name, 1, 4)}
                   /\ files' = files
                   /\ loc'.new_file_path = loc.new_file_path
                   /\ loc'.mkdirs = 1
                   /\ pc' = "move_file"
                   /\ failed_to_move' = failed_to_move
              ELSE /\ pc' = "crashed"
                   /\ failed_to_move' = failed_to_move
                   /\ successfully_moved' = successfully_moved
                   /\ fsVars' = fsVars
        /\ (mode = "sort" /\ pc = "move_file" /\ loc.mkdirs = 1) =>
              /\ successfully_moved' =
                    Append(successfully_moved,
                           [from |-> input_path \o <<Sep>> \o loc.file_name,
                            to |-> base_path \o <<Sep>> \o SubSeq(loc.file_name, 1, 4)
                                     \o <<Sep>> \o loc.file_name])
              /\ loc.new_file_path \in DOMAIN files'
              /\ failed_to_move' = failed_to_move
      ]_vars

\* photo1.jpg was moved into the subdirectory phot, which the run created
C9_Witness ==
    /\ mode = "sort" /\ pc = "done"
    /\ SepJoin(<<DirBase, Slice(N_photo, 4)>>) \in dirs
    /\ \E i \in DOMAIN successfully_moved :
          successfully_moved[i].to = SepJoin(<<DirBase, Slice(N_photo, 4), N_photo>>)

IdsOf(fs) == {fs[p].id : p \in DOMAIN fs}

\* C10: no step of a run loses or overwrites a file: the files are the same
\* files, each under one path, as many as before, and a rename or a move only
\* ever puts a file on a path that nothing occupied.
C10_NoFileLost ==
    [][ /\ IdsOf(files') = IdsOf(files)
        /\ Cardinality(DOMAIN files') = Cardinality(DOMAIN files)
        /\ Cardinality(IdsOf(files')) = Cardinality(DOMAIN files')
        /\ \A q \in DOMAIN files' :
              \/ q \in DOMAIN files /\ files'[q] = files[q]
              \/ /\ ~Occupied(files, dirs, q)
                 /\ \E p \in DOMAIN files : p \notin DOMAIN files' /\ files'[q] = files[p]
        /\ (pc' = "done" /\ mode \in {"rename", "sort"}) =>
              /\ IdsOf(files') = IdsOf(files0')
              /\ Cardinality(DOMAIN files') = Cardinality(DOMAIN files0')
      ]_vars

\* a run renamed two files that derive the same name, and both are still there
C10_Witness ==
    /\ mode = "rename" /\ pc = "done" /\ run = 1
    /\ Len(successfully_renamed) = 2
    /\ \E i \in DOMAIN successfully_renamed :
          successfully_renamed[i].to = PathJoin(DirIn, N_dated1)
    /\ Cardinality(IdsOf(files)) = 2

====
